---------------------------- MODULE Spec2Model ----------------------------
(***************************************************************************)
(* A model of in_ai.py, the Streamlit "AI Investment Dashboard" script.    *)
(*                                                                         *)
(* The script is straight-line code that Streamlit executes from top to    *)
(* bottom.  It blocks at seven external calls (six yfinance fetches and    *)
(* one Groq text-generation call); the model has one action per code       *)
(* segment between two blocking points.  An external call that raises is   *)
(* not caught anywhere in the script, so it ends the execution at the      *)
(* call site.                                                              *)
(*                                                                         *)
(* Python values are tagged records, so that None, "", 0 and "N/A" stay    *)
(* distinct.  An int is kept as its decimal digits (Python ints are        *)
(* unbounded; market caps exceed 2^31).  Dicts are functions from keys.    *)
(***************************************************************************)
EXTENDS Integers, Sequences, FiniteSets, TLC

VARIABLES
    pc,            \* position of the script execution
    groq_api_key,  \* line 14
    stock1,        \* line 58
    stock2,        \* line 59
    run_analysis,  \* line 60
    info1,         \* line 71
    info2,         \* line 76
    fund1,         \* line 84
    fund2,         \* line 91
    prices1,       \* line 99
    prices2,       \* line 100
    query,         \* line 110
    response,      \* line 117
    rendered,      \* the Streamlit elements emitted so far, in order
    calls,         \* the log of external calls: call / return / raise events
    uncaught,      \* the call whose exception ended the execution, if any
    ticker,        \* helper harness: the provider data behind yf.Ticker(symbol)
    returned       \* helper harness: what the helper returned

vars == <<pc, groq_api_key, stock1, stock2, run_analysis, info1, info2, fund1,
          fund2, prices1, prices2, query, response, rendered, calls, uncaught,
          ticker, returned>>

scriptVars == <<pc, groq_api_key, stock1, stock2, run_analysis, info1, info2,
                fund1, fund2, prices1, prices2, query, response, rendered,
                calls, uncaught>>

-----------------------------------------------------------------------------
(* Bounds of the model *)

\* Longest market-cap integer, in decimal digits, among the enumerated ones.
MaxDigits == 4

\* Longest provider price history, in points.
MaxHist == 7

-----------------------------------------------------------------------------
(* Python values *)

None == [t |-> "None"]
Unbound == [t |-> "unbound"]
PyStr(s) == [t |-> "str", v |-> s]
PyBool(b) == [t |-> "bool", v |-> b]
PyFloat(r) == [t |-> "float", v |-> r]
PyInt(neg, digits) == [t |-> "int", neg |-> neg, digits |-> digits]

\* Python truth value testing, as used by `if not groq_api_key`,
\* `if info.get("marketCap")` and `run_analysis and stock1 and stock2`.
Truthy(x) ==
    CASE x.t = "None"  -> FALSE
      [] x.t = "bool"  -> x.v
      [] x.t = "str"   -> x.v # ""
      [] x.t = "int"   -> x.digits # <<0>>
      [] x.t = "float" -> x.v \notin {"0.0", "-0.0"}

\* dict.get(key): the value, or None when the key is missing.
Get(d, k) == IF k \in DOMAIN d THEN d[k] ELSE None

DigitChar == <<"0", "1", "2", "3", "4", "5", "6", "7", "8", "9">>

RECURSIVE DigitsStr(_)
DigitsStr(ds) ==
    IF ds = <<>> THEN "" ELSE DigitChar[Head(ds) + 1] \o DigitsStr(Tail(ds))

\* The format spec "," on the digits of an int: groups of three from the right.
RECURSIVE GroupThousands(_)
GroupThousands(ds) ==
    IF Len(ds) <= 3
    THEN DigitsStr(ds)
    ELSE GroupThousands(SubSeq(ds, 1, Len(ds) - 3))
         \o "," \o DigitsStr(SubSeq(ds, Len(ds) - 2, Len(ds)))

\* f"{n:,}" for an int n.
FormatComma(n) == (IF n.neg THEN "-" ELSE "") \o GroupThousands(n.digits)

\* f"{x}" for the values the prompt interpolates.
FormatValue(x) ==
    CASE x.t = "None" -> "None"
      [] x.t = "str"  -> x.v
      [] x.t = "bool" -> IF x.v THEN "True" ELSE "False"
      [] x.t = "int"  -> (IF x.neg THEN "-" ELSE "") \o DigitsStr(x.digits)
      [] x.t = "float" -> x.v

-----------------------------------------------------------------------------
(* Helper functions, lines 23-48.  Each takes the provider data that the   *)
(* yf.Ticker(symbol) object holds for the symbol.                          *)

InfoKeys == {"longName", "sector", "industry", "marketCap"}
FundKeys == {"previousClose", "trailingPE", "forwardPE", "priceToBook"}

\* Line 30: f"${info.get('marketCap'):,}" if info.get("marketCap") else "N/A"
MarketCap(info) ==
    IF Truthy(Get(info, "marketCap"))
    THEN PyStr("$" \o FormatComma(Get(info, "marketCap")))
    ELSE PyStr("N/A")

get_company_info(info) ==
    [k \in {"Company", "Sector", "Industry", "Market Cap"} |->
        CASE k = "Company"    -> Get(info, "longName")
          [] k = "Sector"     -> Get(info, "sector")
          [] k = "Industry"   -> Get(info, "industry")
          [] k = "Market Cap" -> MarketCap(info)]

get_fundamentals(info) ==
    [k \in {"Previous Close", "Trailing P/E", "Forward P/E", "Price/Book"} |->
        CASE k = "Previous Close" -> Get(info, "previousClose")
          [] k = "Trailing P/E"   -> Get(info, "trailingPE")
          [] k = "Forward P/E"    -> Get(info, "forwardPE")
          [] k = "Price/Book"     -> Get(info, "priceToBook")]

\* The number of rows hist.tail(...) keeps, line 46.
TailRows == 6

TakeHead(s, n) == SubSeq(s, 1, IF Len(s) < n THEN Len(s) ELSE n)

\* DataFrame.tail(n): the last n rows, in order; all of them when fewer.
DfTail(s, n) == SubSeq(s, (IF Len(s) < n THEN 0 ELSE Len(s) - n) + 1, Len(s))

\* A number as a string of at least `width` decimal digits, zero padded.
RECURSIVE ZeroPad(_, _)
ZeroPad(n, width) ==
    IF width <= 1 /\ n < 10
    THEN <<DigitChar[n + 1]>>
    ELSE Append(ZeroPad(n \div 10, width - 1), DigitChar[(n % 10) + 1])

\* Timestamp.strftime("%Y-%m-%d"), as the sequence of its characters.
Strftime(ts) == ZeroPad(ts.y, 4) \o <<"-">> \o ZeroPad(ts.m, 2) \o <<"-">> \o ZeroPad(ts.d, 2)

\* Lines 46-47: tail, reset_index, the three columns, the date as a string.
get_recent_prices(hist) ==
    [i \in 1..Len(DfTail(hist, TailRows)) |->
        [Date   |-> Strftime(DfTail(hist, TailRows)[i].Date),
         Close  |-> DfTail(hist, TailRows)[i].Close,
         Volume |-> DfTail(hist, TailRows)[i].Volume]]

-----------------------------------------------------------------------------
(* What the market-data provider can hold for a symbol *)

AllKeys == InfoKeys \cup FundKeys

\* The market cap of the specification's example, 3000000000.
ExampleCap == <<3, 0, 0, 0, 0, 0, 0, 0, 0, 0>>

\* Decimal numerals of at most MaxDigits digits, without a leading zero.
Numerals ==
    UNION {{d \in [1..n -> {0, 1, 9}] : n = 1 \/ d[1] # 0} : n \in 1..MaxDigits}

MarketCaps ==
    {PyInt(FALSE, d) : d \in Numerals \cup {ExampleCap}}
    \cup {PyInt(TRUE, d) : d \in Numerals \ {<<0>>}}

\* ticker.info with every field present.
FullInfo(symbol, cap) ==
    [k \in AllKeys |->
        CASE k = "longName"      -> PyStr(symbol \o " Inc.")
          [] k = "sector"        -> PyStr("Technology")
          [] k = "industry"      -> PyStr("Consumer Electronics")
          [] k = "marketCap"     -> cap
          [] k = "previousClose" -> PyFloat("189.5")
          [] k = "trailingPE"    -> PyFloat("29.1")
          [] k = "forwardPE"     -> PyFloat("27.4")
          [] k = "priceToBook"   -> PyFloat("45.2")]

Restrict(d, ks) == [k \in ks |-> d[k]]

\* ticker.info with any subset of the fields left out, any market cap.
AllInfos ==
    {Restrict(FullInfo("AAPL", cap), present) :
        present \in SUBSET AllKeys, cap \in MarketCaps}

\* The dates a monthly history can carry (midnight-stamped calendar dates).
DatePool ==
    <<[y |-> 2023, m |-> 9,  d |-> 1],  [y |-> 2023, m |-> 10, d |-> 1],
      [y |-> 2023, m |-> 11, d |-> 1],  [y |-> 2023, m |-> 12, d |-> 1],
      [y |-> 2024, m |-> 1,  d |-> 1],  [y |-> 2024, m |-> 2,  d |-> 1],
      [y |-> 2024, m |-> 3,  d |-> 1],  [y |-> 2024, m |-> 3,  d |-> 15]>>

Quotes ==
    {[Close |-> PyFloat("150.0"), Volume |-> PyInt(FALSE, <<1, 0, 0, 0>>)],
     [Close |-> PyFloat("175.5"), Volume |-> PyInt(FALSE, <<2, 5, 0, 0>>)]}

\* One row of ticker.history(...): the index (Date) and its columns.
HistRow(i, q) ==
    [Date |-> DatePool[i], Open |-> PyFloat("149.0"),
     Close |-> q.Close, Volume |-> q.Volume]

RECURSIVE Ascending(_)
Ascending(S) ==
    IF S = {} THEN <<>>
    ELSE LET m == CHOOSE x \in S : \A y \in S : x <= y
         IN  <<m>> \o Ascending(S \ {m})

\* Chronologically ordered histories of at most MaxHist points.
Histories ==
    UNION {{[i \in 1..Cardinality(S) |-> HistRow(Ascending(S)[i], qs[i])] :
               qs \in [1..Cardinality(S) -> Quotes]} :
           S \in {T \in SUBSET (1..Len(DatePool)) : Cardinality(T) <= MaxHist}}

-----------------------------------------------------------------------------
(* The state before the script runs *)

ScriptInit ==
    /\ pc = "config"
    /\ groq_api_key = Unbound
    /\ stock1 = Unbound
    /\ stock2 = Unbound
    /\ run_analysis = Unbound
    /\ info1 = Unbound
    /\ info2 = Unbound
    /\ fund1 = Unbound
    /\ fund2 = Unbound
    /\ prices1 = Unbound
    /\ prices2 = Unbound
    /\ query = Unbound
    /\ response = Unbound
    /\ rendered = <<>>
    /\ calls = <<>>
    /\ uncaught = None

-----------------------------------------------------------------------------
(* The helper functions on their own: the provider data is drawn in the    *)
(* initial state and one helper is applied to it.                          *)

InitHelpers ==
    /\ ScriptInit
    /\ ticker \in [info : AllInfos, history : {<<>>}]
                  \cup [info : {<<>>}, history : Histories]
    /\ returned = Unbound

CallCompanyInfo ==
    /\ returned = Unbound
    /\ ticker.history = <<>>
    /\ returned' = [fn |-> "get_company_info", value |-> get_company_info(ticker.info)]
    /\ UNCHANGED <<scriptVars, ticker>>

CallFundamentals ==
    /\ returned = Unbound
    /\ ticker.history = <<>>
    /\ returned' = [fn |-> "get_fundamentals", value |-> get_fundamentals(ticker.info)]
    /\ UNCHANGED <<scriptVars, ticker>>

CallRecentPrices ==
    /\ returned = Unbound
    /\ ticker.info = <<>>
    /\ returned' = [fn |-> "get_recent_prices", value |-> get_recent_prices(ticker.history)]
    /\ UNCHANGED <<scriptVars, ticker>>

NextHelpers == CallCompanyInfo \/ CallFundamentals \/ CallRecentPrices

SpecHelpers == InitHelpers /\ [][NextHelpers]_vars

-----------------------------------------------------------------------------
(* The script, lines 12-119.  Emoji of the literal texts are left out.     *)

\* What os.getenv("GROQ_API_KEY") can give after load_dotenv().
EnvKeys == {None, PyStr(""), PyStr("gsk_test")}

\* What the two text inputs can hold when the script runs.
SymbolInputs == {PyStr(""), PyStr("AAPL"), PyStr("ZZZZ")}

\* The provider's answers the script is run against: every field present,
\* the company name missing, and nothing known about the symbol.
MainInfos(symbol) ==
    {Restrict(FullInfo(symbol, PyInt(FALSE, ExampleCap)), AllKeys \ absent) :
        absent \in {{}, {"longName", "forwardPE"}, AllKeys}}

MainHistories ==
    {[i \in 1..n |-> HistRow(i, CHOOSE q \in Quotes : q.Close = PyFloat("150.0"))] :
        n \in {3, 7}}

\* What response.content can be when assistant.run returns.
Contents == {PyStr("## Recommendation"), PyStr(""), None}

\* A Streamlit element: the widget, the side it belongs to (0: the page,
\* 1: stock1, 2: stock2) and the value handed to it.
Elem(w, side, body) == [w |-> w, side |-> side, body |-> body]

\* An event of an external call.
Event(op, side, arg, ev) == [op |-> op, side |-> side, arg |-> arg, ev |-> ev]

KeyIsNone(key) == key = None

\* Line 16: if not groq_api_key
KeyMissing(key) == ~Truthy(key)

ShouldRunEitherSymbol(run, s1, s2) == Truthy(run) /\ (Truthy(s1) \/ Truthy(s2))

\* Line 65: if run_analysis and stock1 and stock2
ShouldRun(run, s1, s2) == Truthy(run) /\ Truthy(s1) /\ Truthy(s2)

\* Line 72 / 77: st.table(pd.DataFrame(info.items(), ...))
Table(side, info) == Elem("table", side, info)

\* Lines 85-88 / 92-95: the four st.metric calls, each given the raw value.
Metrics(side, fund) ==
    <<Elem("metric", side, <<"Previous Close", fund["Previous Close"]>>),
      Elem("metric", side, <<"Trailing P/E", fund["Trailing P/E"]>>),
      Elem("metric", side, <<"Forward P/E", fund["Forward P/E"]>>),
      Elem("metric", side, <<"Price/Book", fund["Price/Book"]>>)>>

\* Lines 102-103: st.line_chart(prices.set_index("Date")["Close"])
LineChart(side, prices) ==
    Elem("line_chart", side, [i \in DOMAIN prices |-> <<prices[i].Date, prices[i].Close>>])

\* Lines 112-113: the static part of the prompt.
Instructions ==
    "Analyze fundamentals, recent price performance, risks, and give an investment recommendation. "
    \o "Be concise and format your response as a professional financial analyst report with bullet points and sections."

\* Lines 110-114: the prompt.
Query(s1, i1, s2, i2) ==
    "Compare " \o FormatValue(s1) \o " (" \o FormatValue(i1["Company"]) \o ") and "
    \o FormatValue(s2) \o " (" \o FormatValue(i2["Company"]) \o "). "
    \o Instructions

Init ==
    /\ ScriptInit
    /\ ticker = Unbound
    /\ returned = Unbound

\* Lines 12-18: the page config, the credential and the check on it.
Config ==
    /\ pc = "config"
    /\ \E key \in EnvKeys :
        /\ groq_api_key' = key
        /\ IF KeyMissing(key)
           THEN /\ rendered' = Append(rendered, Elem("error", 0, PyStr("Groq API Key not found. Please set GROQ_API_KEY in your .env or environment variables.")))
                /\ pc' = "stopped"
           ELSE /\ rendered' = rendered
                /\ pc' = "layout"
    /\ UNCHANGED <<stock1, stock2, run_analysis, info1, info2, fund1, fund2,
                   prices1, prices2, query, response, calls, uncaught, ticker, returned>>

\* Lines 53-60: the title, the caption and the sidebar with its inputs.
Layout ==
    /\ pc = "layout"
    /\ \E s1 \in SymbolInputs, s2 \in SymbolInputs, pressed \in BOOLEAN :
        /\ stock1' = s1
        /\ stock2' = s2
        /\ run_analysis' = PyBool(pressed)
    /\ rendered' = rendered \o
        <<Elem("title", 0, PyStr("AI Investment Dashboard")),
          Elem("caption", 0, PyStr("Compare company fundamentals, stock performance, and AI analysis.")),
          Elem("header", 0, PyStr("Stock Panel")),
          Elem("text_input", 0, PyStr("Stock 1 Symbol")),
          Elem("text_input", 0, PyStr("Stock 2 Symbol")),
          Elem("button", 0, PyStr("Run Analysis"))>>
    /\ pc' = "guard"
    /\ UNCHANGED <<groq_api_key, info1, info2, fund1, fund2, prices1, prices2,
                   query, response, calls, uncaught, ticker, returned>>

\* Lines 65-71: the guard, the columns, the first subheader, the first fetch.
Guard ==
    /\ pc = "guard"
    /\ IF ShouldRun(run_analysis, stock1, stock2)
       THEN /\ rendered' = Append(rendered,
                    Elem("subheader", 1, PyStr(FormatValue(stock1) \o " Company Info")))
            /\ calls' = Append(calls, Event("get_company_info", 1, stock1, "call"))
            /\ pc' = "info1"
       ELSE /\ UNCHANGED <<rendered, calls>>
            /\ pc' = "done"
    /\ UNCHANGED <<groq_api_key, stock1, stock2, run_analysis, info1, info2, fund1,
                   fund2, prices1, prices2, query, response, uncaught, ticker, returned>>

\* An external call raises: nothing in the script catches it.
Raises(op, side, arg) ==
    /\ calls' = Append(calls, Event(op, side, arg, "raise"))
    /\ uncaught' = [op |-> op, side |-> side]
    /\ pc' = "raised"
    /\ UNCHANGED <<groq_api_key, stock1, stock2, run_analysis, info1, info2, fund1,
                   fund2, prices1, prices2, query, response, rendered, ticker, returned>>

\* Lines 71-76: info1, its table, the second subheader, the second fetch.
Info1Return ==
    /\ pc = "info1"
    /\ \/ Raises("get_company_info", 1, stock1)
       \/ \E info \in MainInfos(stock1.v) :
            /\ info1' = get_company_info(info)
            /\ rendered' = rendered \o
                <<Table(1, info1'),
                  Elem("subheader", 2, PyStr(FormatValue(stock2) \o " Company Info"))>>
            /\ calls' = calls \o
                <<Event("get_company_info", 1, stock1, "return"),
                  Event("get_company_info", 2, stock2, "call")>>
            /\ pc' = "info2"
            /\ UNCHANGED <<groq_api_key, stock1, stock2, run_analysis, info2, fund1, fund2,
                           prices1, prices2, query, response, uncaught, ticker, returned>>

\* Lines 76-84: info2, its table, the fundamentals heading, the third fetch.
Info2Return ==
    /\ pc = "info2"
    /\ \/ Raises("get_company_info", 2, stock2)
       \/ \E info \in MainInfos(stock2.v) :
            /\ info2' = get_company_info(info)
            /\ rendered' = rendered \o
                <<Table(2, info2'), Elem("markdown", 0, PyStr("## Fundamentals"))>>
            /\ calls' = calls \o
                <<Event("get_company_info", 2, stock2, "return"),
                  Event("get_fundamentals", 1, stock1, "call")>>
            /\ pc' = "fund1"
            /\ UNCHANGED <<groq_api_key, stock1, stock2, run_analysis, info1, fund1, fund2,
                           prices1, prices2, query, response, uncaught, ticker, returned>>

\* Lines 84-91: fund1, its four metrics, the fourth fetch.
Fund1Return ==
    /\ pc = "fund1"
    /\ \/ Raises("get_fundamentals", 1, stock1)
       \/ \E info \in MainInfos(stock1.v) :
            /\ fund1' = get_fundamentals(info)
            /\ rendered' = rendered \o Metrics(1, fund1')
            /\ calls' = calls \o
                <<Event("get_fundamentals", 1, stock1, "return"),
                  Event("get_fundamentals", 2, stock2, "call")>>
            /\ pc' = "fund2"
            /\ UNCHANGED <<groq_api_key, stock1, stock2, run_analysis, info1, info2, fund2,
                           prices1, prices2, query, response, uncaught, ticker, returned>>

\* Lines 91-99: fund2, its four metrics, the price heading, the fifth fetch.
Fund2Return ==
    /\ pc = "fund2"
    /\ \/ Raises("get_fundamentals", 2, stock2)
       \/ \E info \in MainInfos(stock2.v) :
            /\ fund2' = get_fundamentals(info)
            /\ rendered' = rendered \o Metrics(2, fund2')
                            \o <<Elem("markdown", 0, PyStr("## Recent Price Trend"))>>
            /\ calls' = calls \o
                <<Event("get_fundamentals", 2, stock2, "return"),
                  Event("get_recent_prices", 1, stock1, "call")>>
            /\ pc' = "prices1"
            /\ UNCHANGED <<groq_api_key, stock1, stock2, run_analysis, info1, info2, fund1,
                           prices1, prices2, query, response, uncaught, ticker, returned>>

\* As Prices1Return, had line 100 reused prices1 instead of fetching again.
Prices1ReturnNoSecondFetch ==
    /\ pc = "prices1"
    /\ \/ Raises("get_recent_prices", 1, stock1)
       \/ \E hist \in MainHistories :
            /\ prices1' = get_recent_prices(hist)
            /\ prices2' = prices1'
            /\ rendered' = rendered \o
                <<LineChart(1, prices1'), LineChart(2, prices2'),
                  Elem("markdown", 0, PyStr("## AI Investment Analysis"))>>
            /\ query' = PyStr(Query(stock1, info1, stock2, info2))
            /\ calls' = calls \o
                <<Event("get_recent_prices", 1, stock1, "return"),
                  Event("assistant.run", 0, query', "call")>>
            /\ pc' = "run"
            /\ UNCHANGED <<groq_api_key, stock1, stock2, run_analysis, info1, info2, fund1,
                           fund2, response, uncaught, ticker, returned>>

\* Lines 99-100: prices1, the sixth fetch.
Prices1Return ==
    /\ pc = "prices1"
    /\ \/ Raises("get_recent_prices", 1, stock1)
       \/ \E hist \in MainHistories :
            /\ prices1' = get_recent_prices(hist)
            /\ calls' = calls \o
                <<Event("get_recent_prices", 1, stock1, "return"),
                  Event("get_recent_prices", 2, stock2, "call")>>
            /\ pc' = "prices2"
            /\ UNCHANGED <<groq_api_key, stock1, stock2, run_analysis, info1, info2, fund1,
                           fund2, prices2, query, response, rendered, uncaught, ticker, returned>>

\* Lines 100-117: prices2, the two charts, the analysis heading, the agent,
\* the prompt, the text-generation call.
Prices2Return ==
    /\ pc = "prices2"
    /\ \/ Raises("get_recent_prices", 2, stock2)
       \/ \E hist \in MainHistories :
            /\ prices2' = get_recent_prices(hist)
            /\ rendered' = rendered \o
                <<LineChart(1, prices1), LineChart(2, prices2'),
                  Elem("markdown", 0, PyStr("## AI Investment Analysis"))>>
            /\ query' = PyStr(Query(stock1, info1, stock2, info2))
            /\ calls' = calls \o
                <<Event("get_recent_prices", 2, stock2, "return"),
                  Event("assistant.run", 0, query', "call")>>
            /\ pc' = "run"
            /\ UNCHANGED <<groq_api_key, stock1, stock2, run_analysis, info1, info2, fund1,
                           fund2, prices1, response, uncaught, ticker, returned>>

\* Lines 117-119: the response, rendered as markdown whatever its content.
RunReturn ==
    /\ pc = "run"
    /\ \/ Raises("assistant.run", 0, query)
       \/ \E content \in Contents :
            /\ response' = [content |-> content]
            /\ rendered' = Append(rendered, Elem("markdown", 0, content))
            /\ calls' = Append(calls, Event("assistant.run", 0, query, "return"))
            /\ pc' = "done"
            /\ UNCHANGED <<groq_api_key, stock1, stock2, run_analysis, info1, info2, fund1,
                           fund2, prices1, prices2, query, uncaught, ticker, returned>>

Next ==
    \/ Config
    \/ Layout
    \/ Guard
    \/ Info1Return
    \/ Info2Return
    \/ Fund1Return
    \/ Fund2Return
    \/ Prices1Return
    \/ Prices2Return
    \/ RunReturn

Spec == Init /\ [][Next]_vars

-----------------------------------------------------------------------------
(* Vocabulary of the properties *)

MarketOps == {"get_company_info", "get_fundamentals", "get_recent_prices"}

Events(op, side, ev) ==
    {i \in DOMAIN calls : calls[i].op = op /\ calls[i].side = side /\ calls[i].ev = ev}

HasEvent(op, side, ev) == Events(op, side, ev) # {}

MarketRaised == \E op \in MarketOps, side \in {1, 2} : HasEvent(op, side, "raise")

SymbolOf(side) == IF side = 1 THEN stock1 ELSE stock2

Widgets(side) == {rendered[i].w : i \in {j \in DOMAIN rendered : rendered[j].side = side}}

\* A message for the user: an element that reports a problem, or the
\* exception that Streamlit displays when the script ends with one.
MessageShown ==
    \/ uncaught # None
    \/ \E i \in DOMAIN rendered : rendered[i].w \in {"error", "warning", "exception"}

-----------------------------------------------------------------------------
(* C1 *)

\* C1: when the company-info fetch of a side fails, the run is aborted with
\* a message, no later fetch and no text-generation call is made, and
\* nothing is rendered for that side.  The script renders the side's
\* subheader before it fetches, so the last part fails.
C1_InfoFailureRendersNothingForSide ==
    \A side \in {1, 2} :
        HasEvent("get_company_info", side, "raise") =>
            /\ pc = "raised"
            /\ MessageShown
            /\ calls[Len(calls)] = Event("get_company_info", side, SymbolOf(side), "raise")
            /\ ~HasEvent("assistant.run", 0, "call")
            /\ Widgets(side) = {}

-----------------------------------------------------------------------------
(* C2 *)

MetricsShowNA(side) ==
    /\ Cardinality({i \in DOMAIN rendered :
            rendered[i].w = "metric" /\ rendered[i].side = side}) = 4
    /\ \A i \in DOMAIN rendered :
        (rendered[i].w = "metric" /\ rendered[i].side = side)
            => rendered[i].body[2] = PyStr("N/A")

\* C2: with both company-info fetches done, a failing fundamentals or price
\* fetch does not abort the run: the side's four metrics show "N/A" and the
\* text-generation call is still made.  In the script the exception of the
\* fetch ends the execution.
C2_LaterFetchFailureDoesNotAbort ==
    \A side \in {1, 2} :
        ( /\ HasEvent("get_company_info", 1, "return")
          /\ HasEvent("get_company_info", 2, "return")
          /\ \/ HasEvent("get_fundamentals", side, "raise")
             \/ HasEvent("get_recent_prices", side, "raise") )
        => /\ pc # "raised"
           /\ uncaught = None
           /\ pc = "done" =>
                /\ HasEvent("assistant.run", 0, "call")
                /\ HasEvent("get_fundamentals", side, "raise") => MetricsShowNA(side)

-----------------------------------------------------------------------------
(* C3 *)

DataSectionsRendered ==
    /\ \A side \in {1, 2} : {"table", "metric", "line_chart"} \subseteq Widgets(side)

NarrativeFailedOrEmpty ==
    \/ HasEvent("assistant.run", 0, "raise")
    \/ response # Unbound /\ ~Truthy(response.content)

\* C3: when the text-generation call fails or returns empty content, the
\* data sections stay rendered and a message is shown for the narrative
\* section.  The script hands an empty content to st.markdown and shows no
\* message.
C3_NarrativeFailureShowsMessage ==
    NarrativeFailedOrEmpty => DataSectionsRendered /\ MessageShown

-----------------------------------------------------------------------------
(* C4 *)

\* C4: with the credential absent or empty the script stops with an error
\* before the inputs exist: no symbol input, no trigger, no fetch, no
\* text-generation call.
C4_MissingKeyStopsBeforeInputs ==
    groq_api_key \in {None, PyStr("")} =>
        /\ pc = "stopped"
        /\ calls = <<>>
        /\ {rendered[i].w : i \in DOMAIN rendered} = {"error"}
        /\ stock1 = Unbound /\ stock2 = Unbound /\ run_analysis = Unbound

C4_Witness == groq_api_key = PyStr("") /\ pc = "stopped" /\ Len(rendered) = 1

-----------------------------------------------------------------------------
(* C10 *)

Triggered ==
    /\ run_analysis = PyBool(TRUE)
    /\ stock1.t = "str" /\ stock1.v # ""
    /\ stock2.t = "str" /\ stock2.v # ""

\* C10: an external call is made only when the trigger was pressed and both
\* symbols are non-empty; otherwise the execution renders only the title and
\* the input panel and calls nothing.
C10_NoCallUnlessTriggered ==
    /\ calls # <<>> => Triggered
    /\ (run_analysis # Unbound /\ ~Triggered) =>
        /\ calls = <<>>
        /\ {rendered[i].w : i \in DOMAIN rendered}
              = {"title", "caption", "header", "text_input", "button"}
        /\ Len(rendered) = 6

C10_Witness ==
    /\ pc = "done"
    /\ run_analysis = PyBool(TRUE)
    /\ stock1 = PyStr("")
    /\ stock2 = PyStr("AAPL")
    /\ calls = <<>>

-----------------------------------------------------------------------------
(* C5 *)

\* The key of the returned dict that carries an upstream field.
Surfaced(k) ==
    CASE k = "longName"      -> "Company"
      [] k = "sector"        -> "Sector"
      [] k = "industry"      -> "Industry"
      [] k = "marketCap"     -> "Market Cap"
      [] k = "previousClose" -> "Previous Close"
      [] k = "trailingPE"    -> "Trailing P/E"
      [] k = "forwardPE"     -> "Forward P/E"
      [] k = "priceToBook"   -> "Price/Book"

\* C5: every field the provider leaves out comes back from get_company_info
\* and get_fundamentals as the "N/A" marker.  Only the market cap does: the
\* other seven come back as None.
C5_AbsentFieldIsNA ==
    (returned # Unbound /\ returned.fn \in {"get_company_info", "get_fundamentals"}) =>
        \A k \in AllKeys \ DOMAIN ticker.info :
            Surfaced(k) \in DOMAIN returned.value
                => returned.value[Surfaced(k)] = PyStr("N/A")

-----------------------------------------------------------------------------
(* C6 *)

\* "<symbol> (<company name>)", the symbol standing in for an absent name.
SideName(symbol, info) ==
    symbol.v \o " ("
    \o (IF info["Company"] = None THEN symbol.v ELSE info["Company"].v) \o ")"

\* C6: the prompt names each side as "<symbol> (<company name>)" and falls
\* back to the symbol when the name is absent.  The script interpolates the
\* absent name as it is, which gives "ZZZZ (None)".
C6_PromptFallsBackToSymbol ==
    query # Unbound =>
        query = PyStr("Compare " \o SideName(stock1, info1) \o " and "
                      \o SideName(stock2, info2) \o ". " \o Instructions)

-----------------------------------------------------------------------------
(* C7 *)

\* Every call is answered before the next one is issued.
OneAtATime ==
    \A i \in DOMAIN calls :
        IF calls[i].ev = "call"
        THEN i = Len(calls) \/
             /\ calls[i + 1].ev \in {"return", "raise"}
             /\ calls[i + 1].op = calls[i].op
             /\ calls[i + 1].side = calls[i].side
        ELSE i > 1 /\ calls[i - 1].ev = "call"

\* The text-generation call comes after the return of all six fetches.
NarrativeAfterFetches ==
    \A j \in Events("assistant.run", 0, "call") :
        \A op \in MarketOps, side \in {1, 2} :
            \E i \in Events(op, side, "return") : i < j

\* C7: a run in which no fetch fails makes exactly six market-data calls, one
\* per (symbol, data kind), one at a time, and then exactly one
\* text-generation call.
C7_SixFetchesThenOneNarrative ==
    /\ OneAtATime
    /\ NarrativeAfterFetches
    /\ (pc \in {"done", "raised"} /\ calls # <<>> /\ ~MarketRaised) =>
        /\ \A op \in MarketOps, side \in {1, 2} :
            /\ Cardinality(Events(op, side, "call")) = 1
            /\ Cardinality(Events(op, side, "return")) = 1
            /\ \A i \in Events(op, side, "call") : calls[i].arg = SymbolOf(side)
        /\ Cardinality({i \in DOMAIN calls :
                calls[i].ev = "call" /\ calls[i].op \in MarketOps}) = 6
        /\ Cardinality({i \in DOMAIN calls :
                calls[i].ev = "call" /\ calls[i].op = "assistant.run"}) = 1

C7_Witness ==
    /\ pc = "done"
    /\ Len(calls) = 14
    /\ ~MarketRaised
    /\ HasEvent("assistant.run", 0, "return")
    /\ stock1 = PyStr("AAPL") /\ stock2 = PyStr("ZZZZ")

-----------------------------------------------------------------------------
(* C8 *)

\* The decimal digits with a comma before every group of three counted from
\* the right, character by character: position i of a string of length
\* total holds a comma when total - i is 3 modulo 4.
RECURSIVE WrittenFrom(_, _, _)
WrittenFrom(ds, i, total) ==
    IF i > total THEN ""
    ELSE LET r == total - i
         IN  (IF r % 4 = 3 THEN "," ELSE DigitChar[ds[Len(ds) - (r - r \div 4)] + 1])
             \o WrittenFrom(ds, i + 1, total)

WithSeparators(n) ==
    (IF n.neg THEN "-" ELSE "")
    \o WrittenFrom(n.digits, 1, Len(n.digits) + (Len(n.digits) - 1) \div 3)

\* C8: the market cap shown is "N/A" when the provider has none, and "$"
\* with the integer and its thousands separators for every market cap it
\* has.  The script tests the truth value, so a market cap of 0 shows "N/A".
C8_MarketCapFormatted ==
    (returned # Unbound /\ returned.fn = "get_company_info") =>
        returned.value["Market Cap"] =
            IF "marketCap" \notin DOMAIN ticker.info
            THEN PyStr("N/A")
            ELSE PyStr("$" \o WithSeparators(ticker.info["marketCap"]))

-----------------------------------------------------------------------------
(* C9 *)

DigitOf(c) == CHOOSE d \in 0..9 : DigitChar[d + 1] = c

\* The code point of a character of a formatted date.
Ord(c) == IF c = "-" THEN 45 ELSE 48 + DigitOf(c)

\* String comparison, as Python orders two str values.
StrLess(a, b) ==
    \/ Len(a) < Len(b) /\ SubSeq(b, 1, Len(a)) = a
    \/ \E k \in 1..(IF Len(a) < Len(b) THEN Len(a) ELSE Len(b)) :
        /\ SubSeq(a, 1, k - 1) = SubSeq(b, 1, k - 1)
        /\ Ord(a[k]) < Ord(b[k])

\* The calendar date a "YYYY-MM-DD" string reads as.
ReadDate(s) ==
    [y |-> 1000 * DigitOf(s[1]) + 100 * DigitOf(s[2]) + 10 * DigitOf(s[3]) + DigitOf(s[4]),
     m |-> 10 * DigitOf(s[6]) + DigitOf(s[7]),
     d |-> 10 * DigitOf(s[9]) + DigitOf(s[10])]

\* C9: of a chronologically ordered history of n points get_recent_prices
\* returns the most recent min(6, n), in the same order: at most 6 rows,
\* with strictly increasing dates.
C9_MostRecentSixInOrder ==
    (returned # Unbound /\ returned.fn = "get_recent_prices") =>
        LET hist == ticker.history
            rows == returned.value
            n    == Len(hist)
            kept == IF n < 6 THEN n ELSE 6
        IN  /\ Len(rows) = kept
            /\ Len(rows) <= 6
            /\ \A i \in 1..kept :
                /\ Len(rows[i].Date) = 10
                /\ rows[i].Date[5] = "-" /\ rows[i].Date[8] = "-"
                /\ ReadDate(rows[i].Date) = hist[n - kept + i].Date
                /\ rows[i].Close = hist[n - kept + i].Close
                /\ rows[i].Volume = hist[n - kept + i].Volume
                /\ DOMAIN rows[i] = {"Date", "Close", "Volume"}
            /\ \A i \in 1..kept, j \in 1..kept :
                i < j => StrLess(rows[i].Date, rows[j].Date)

C9_Witness ==
    /\ returned # Unbound
    /\ returned.fn = "get_recent_prices"
    /\ Len(ticker.history) = 7
    /\ Len(returned.value) = 6
    /\ returned.value[1].Date = <<"2", "0", "2", "3", "-", "1", "0", "-", "0", "1">>

=============================================================================
